---- MODULE Spec2Model ----
(***************************************************************************)
(* Model of the chatbot page (app.py) and of its text generator            *)
(* (backend.py).  Every browser session runs the page script from top to   *)
(* bottom on each interaction; the script keeps the transcript in          *)
(* st.session_state.chat_log and blocks inside generate_response.          *)
(*                                                                         *)
(* A string is a sequence of one-character strings, so that str.strip()    *)
(* and the tokenizer's encode/decode are computed character by character.  *)
(***************************************************************************)
EXTENDS Naturals, Sequences, FiniteSets

\* ---------------------------------------------------------------- bounds

\* Longest text typed into the input box.
MaxLen == 1

\* Number of generate_response calls over all sessions together.
MaxCalls == 2

\* The browser sessions and the characters typed.
Sessions == {"s1", "s2"}
Chars == {" ", "a"}

\* The failure descriptions the model runtime raises.
Faults == {"CUDA out of memory"}

\* ------------------------------------------------------------- strings

Str(n) == UNION {[1..k -> Chars] : k \in 0..n}

\* app.py:19, the bot text of a freshly appended entry.
Placeholder == <<"T", "h", "i", "n", "k", "i", "n", "g", ".", ".", ".">>

\* app.py:27, the bot text after a failed generation.
ErrorMarker == <<"E", "r", "r", "o", "r", ":", " ", "U", "n", "a", "b", "l", "e", " ", "t", "o", " ", "p", "r", "o", "c", "e", "s", "s", " ", "y", "o", "u", "r", " ", "r", "e", "q", "u", "e", "s", "t", ".">>

\* What a user may have in the text box when Send is pressed: the short
\* texts, a message with a leading space, and the placeholder's own text.
Inputs == Str(MaxLen) \cup {<<" ", "a">>, Placeholder}

\* The characters str.strip() removes.
Whitespace == {" ", "\t", "\n", "\r"}

RECURSIVE lstrip(_)
lstrip(u) == IF u = <<>> THEN u
             ELSE IF Head(u) \in Whitespace THEN lstrip(Tail(u)) ELSE u

RECURSIVE rstrip(_)
rstrip(u) == IF u = <<>> THEN u
             ELSE IF u[Len(u)] \in Whitespace
                  THEN rstrip(SubSeq(u, 1, Len(u) - 1)) ELSE u

strip(u) == rstrip(lstrip(u))

\* The condition of app.py:15 without the strip: rejects the empty text only.
IsBlankNoStrip(u) == u = <<>>

\* app.py:15, user_input.strip() == "".
IsBlank(u) == strip(u) = <<>>

\* ----------------------------------------------------------- generator

\* backend.py:13, max_length of model.generate.
max_length == 50

\* A token of the vocabulary: an ordinary piece of text or a special token.
Tok(c) == [special |-> FALSE, text |-> c]
EOS == [special |-> TRUE, text |-> "<|endoftext|>"]

\* backend.py:12, tokenizer.encode(prompt).
encode(prompt) == [i \in 1..Len(prompt) |-> Tok(prompt[i])]

\* The new tokens the model may produce after the prompt: it stops at once
\* (end of text, which decode drops) or emits a token.
Continuations == {<<EOS>>, <<Tok("a")>>}

\* backend.py:13, model.generate(inputs, max_length=50, ...): the prompt's
\* tokens followed by the new ones, within max_length.  Which continuation
\* comes out depends on the weights.
generate(inputs) ==
    {inputs \o c : c \in {d \in Continuations : Len(inputs) + Len(d) <= max_length}}

\* backend.py:14, tokenizer.decode(outputs[0], skip_special_tokens=True).
RECURSIVE decode(_)
decode(tokens) ==
    IF tokens = <<>> THEN <<>>
    ELSE IF Head(tokens).special THEN decode(Tail(tokens))
         ELSE <<Head(tokens).text>> \o decode(Tail(tokens))

\* backend.py:8-15, the strings generate_response(prompt) may return.
generate_response(prompt) == {decode(out) : out \in generate(encode(prompt))}

\* ----------------------------------------------------------------- state

VARIABLES
    session_state,  \* per session: st.session_state, a map from keys to values
    pc,             \* per session: where the script run stands
    user_input,     \* per session: the running script's user_input (empty: no run)
    notices,        \* per session: the st.error boxes of the latest run
    rendered,       \* per session: the lines written by the latest chat display loop
    calls           \* per session: history of the generate_response calls

vars == <<session_state, pc, user_input, notices, rendered, calls>>

\* st.session_state before the first run: no key.
NoState == [k \in {} |-> <<>>]

HasLog(ss) == "chat_log" \in DOMAIN ss

\* The transcript of a session (empty while the key is absent).
Log(s) == IF HasLog(session_state[s]) THEN session_state[s].chat_log ELSE <<>>

\* The initialisation of app.py:10 done on every run, absent or not.
InitAlways(ss) == [chat_log |-> <<>>]

\* app.py:9-10, the chat log is created only when the key is absent.
InitSessionState(ss) == IF HasLog(ss) THEN ss ELSE [chat_log |-> <<>>]

\* The append of app.py:19 done on a list shared by all sessions.
AppendEntryShared(st, s, entry) ==
    [t \in Sessions |->
        IF HasLog(st[t]) THEN [chat_log |-> Append(st[t].chat_log, entry)] ELSE st[t]]

\* The append of app.py:19 done as an insert at the front of the list.
AppendEntryFront(st, s, entry) ==
    [st EXCEPT ![s] = [chat_log |-> <<entry>> \o st[s].chat_log]]

\* app.py:19, st.session_state.chat_log.append(...) in session s.
AppendEntry(st, s, entry) ==
    [st EXCEPT ![s] = [chat_log |-> Append(st[s].chat_log, entry)]]

\* The assignment of app.py:25 done on the first entry instead of the last.
SetFirstBot(log, text) == [log EXCEPT ![1].bot = text]

\* app.py:25 and 27, chat_log[-1]["bot"] = text.
SetLastBot(log, text) == [log EXCEPT ![Len(log)].bot = text]

\* An except branch that leaves the entry as it is.
OnExceptionKeep(log) == log

\* app.py:27, the except branch's write of the error marker.
OnException(log) == SetLastBot(log, ErrorMarker)

\* app.py:16 and 28, the texts given to st.error.
ValidationNotice == <<"Please enter a message.">>
GenerationNotice(e) == <<"An error occurred: ", e>>

\* A display loop that writes the newest entry first.
RECURSIVE RenderReversed(_)
RenderReversed(log) ==
    IF log = <<>> THEN <<>>
    ELSE RenderReversed(Tail(log))
         \o << <<"**You:** ", Head(log).user>>, <<"**Bot:** ", Head(log).bot>> >>

\* app.py:32-34, the chat display loop: two markdown lines per entry.
RECURSIVE Render(_)
Render(log) ==
    IF log = <<>> THEN <<>>
    ELSE << <<"**You:** ", Head(log).user>>, <<"**Bot:** ", Head(log).bot>> >>
         \o Render(Tail(log))

RECURSIVE SumLen(_)
SumLen(S) == IF S = {} THEN 0
             ELSE LET t == CHOOSE x \in S : TRUE
                  IN Len(calls[t]) + SumLen(S \ {t})

\* The generate_response calls made so far.
TotalCalls == SumLen(Sessions)

Init ==
    /\ session_state = [s \in Sessions |-> NoState]
    /\ pc = [s \in Sessions |-> "idle"]
    /\ user_input = [s \in Sessions |-> <<>>]
    /\ notices = [s \in Sessions |-> <<>>]
    /\ rendered = [s \in Sessions |-> <<>>]
    /\ calls = [s \in Sessions |-> <<>>]

\* ---------------------------------------------------------------- actions

\* app.py:5-14 and 31-34: a run of the page with Send not pressed: the first
\* load, an edit of the text, a rerun.  The script reads user_input only
\* under the button, so the text of such a run has no effect.
Rerun(s) ==
    /\ pc[s] = "idle"
    /\ session_state' = [session_state EXCEPT ![s] = InitSessionState(@)]
    /\ notices' = [notices EXCEPT ![s] = <<>>]
    /\ rendered' = [rendered EXCEPT ![s] = Render(session_state'[s].chat_log)]
    /\ UNCHANGED <<pc, user_input, calls>>

\* app.py:9-16 and 31-34: Send pressed (the page has been loaded) with a
\* blank text: the notice, then the display.
SendBlank(s, inp) ==
    /\ pc[s] = "idle"
    /\ HasLog(session_state[s])
    /\ IsBlank(inp)
    /\ session_state' = [session_state EXCEPT ![s] = InitSessionState(@)]
    /\ notices' = [notices EXCEPT ![s] = <<ValidationNotice>>]
    /\ rendered' = [rendered EXCEPT ![s] = Render(session_state'[s].chat_log)]
    /\ UNCHANGED <<pc, user_input, calls>>

\* app.py:9-23: Send pressed with a message; the entry is appended with the
\* placeholder and the script enters generate_response(user_input).
SendMessage(s, inp) ==
    /\ pc[s] = "idle"
    /\ HasLog(session_state[s])
    /\ ~IsBlank(inp)
    /\ TotalCalls < MaxCalls
    /\ session_state' =
         AppendEntry([session_state EXCEPT ![s] = InitSessionState(@)], s,
                     [user |-> inp, bot |-> Placeholder])
    /\ user_input' = [user_input EXCEPT ![s] = inp]
    /\ notices' = [notices EXCEPT ![s] = <<>>]
    /\ calls' = [calls EXCEPT ![s] =
                    Append(@, [prompt |-> inp, kind |-> "pending", text |-> <<>>])]
    /\ pc' = [pc EXCEPT ![s] = "generating"]
    /\ UNCHANGED rendered

\* The Send handler of app.py:14-28 on either branch.
Send(s, inp) == SendBlank(s, inp) \/ SendMessage(s, inp)

\* app.py:23-25 and 31-34: generate_response returns; the placeholder is
\* replaced, the transcript displayed and the run ends.
GenerateReturn(s) ==
    /\ pc[s] = "generating"
    /\ \E bot_response \in generate_response(user_input[s]) :
         /\ session_state' = [session_state EXCEPT
                ![s] = [chat_log |-> SetLastBot(@.chat_log, bot_response)]]
         /\ calls' = [calls EXCEPT ![s] =
                [@ EXCEPT ![Len(@)] = [prompt |-> @.prompt, kind |-> "ok",
                                       text |-> bot_response]]]
    /\ rendered' = [rendered EXCEPT ![s] = Render(session_state'[s].chat_log)]
    /\ user_input' = [user_input EXCEPT ![s] = <<>>]
    /\ pc' = [pc EXCEPT ![s] = "idle"]
    /\ UNCHANGED notices

\* app.py:23, 26-28 and 31-34: generate_response raises; the error marker is
\* written, the failure shown, the transcript displayed and the run ends.
GenerateRaise(s) ==
    /\ pc[s] = "generating"
    /\ \E e \in Faults :
         /\ session_state' = [session_state EXCEPT
                ![s] = [chat_log |-> OnException(@.chat_log)]]
         /\ notices' = [notices EXCEPT ![s] = Append(@, GenerationNotice(e))]
         /\ calls' = [calls EXCEPT ![s] =
                [@ EXCEPT ![Len(@)] = [prompt |-> @.prompt, kind |-> "raise",
                                       text |-> <<e>>]]]
    /\ rendered' = [rendered EXCEPT ![s] = Render(session_state'[s].chat_log)]
    /\ user_input' = [user_input EXCEPT ![s] = <<>>]
    /\ pc' = [pc EXCEPT ![s] = "idle"]

Next ==
    \/ \E s \in Sessions : Rerun(s)
    \/ \E s \in Sessions, inp \in Inputs : SendBlank(s, inp)
    \/ \E s \in Sessions, inp \in Inputs : SendMessage(s, inp)
    \/ \E s \in Sessions : GenerateReturn(s)
    \/ \E s \in Sessions : GenerateRaise(s)

Spec == Init /\ [][Next]_vars

\* ------------------------------------------------------------ properties

Last(q) == q[Len(q)]

\* The bot text the transcript must hold for a generate_response call.
BotOf(call) == IF call.kind = "ok" THEN call.text
               ELSE IF call.kind = "raise" THEN ErrorMarker
               ELSE Placeholder

\* The entries whose bot text is the placeholder.
Pending(log) == {i \in 1..Len(log) : log[i].bot = Placeholder}

\* The entries whose generate_response call has not come back.
Awaiting(s) == {i \in 1..Len(calls[s]) : calls[s][i].kind = "pending"}

\* C1: a Send with an empty or whitespace-only text, in any state of the
\* session, leaves the session's transcript exactly as it was and shows the
\* validation notice.
C1_BlankSendRejected ==
    [][\A s \in Sessions : \A inp \in Inputs :
          (strip(inp) = <<>> /\ Send(s, inp))
          => /\ session_state'[s] = session_state[s]
             /\ notices'[s] = <<ValidationNotice>>
             /\ calls'[s] = calls[s]]_vars

\* C1 witness: the validation notice is up in a session whose transcript
\* already holds an entry.
C1_Witness ==
    \E s \in Sessions : notices[s] = <<ValidationNotice>> /\ Log(s) # <<>>

\* C2 as stated: after a submission of X for which the generator returned R,
\* the last entry is {X, R} and its bot text is not the placeholder.
C2_Original ==
    \A s \in Sessions :
        (pc[s] = "idle" /\ calls[s] # <<>> /\ Last(calls[s]).kind = "ok")
        => /\ Last(Log(s)).user = Last(calls[s]).prompt
           /\ Last(Log(s)).bot = Last(calls[s]).text
           /\ Last(Log(s)).bot # Placeholder

\* C2 amended: after a submission of X for which the generator returned R,
\* the last entry is {X, R}; its bot text differs from the placeholder
\* whenever R is not itself the text "Thinking...".
C2_LastEntryIsResponse ==
    \A s \in Sessions :
        (pc[s] = "idle" /\ calls[s] # <<>> /\ Last(calls[s]).kind = "ok")
        => /\ Len(Log(s)) = Len(calls[s])
           /\ Last(Log(s)).user = Last(calls[s]).prompt
           /\ Last(Log(s)).bot = Last(calls[s]).text
           /\ Last(calls[s]).text # Placeholder => Last(Log(s)).bot # Placeholder

\* C2 witness: a second submission has come back with a text that continues
\* the prompt.
C2_Witness ==
    \E s \in Sessions :
        /\ pc[s] = "idle" /\ Len(calls[s]) = 2
        /\ Last(calls[s]).kind = "ok"
        /\ Last(calls[s]).text # Last(calls[s]).prompt
        /\ Last(Log(s)).bot = Last(calls[s]).text

\* C3: when generate_response fails, the run ends with the error marker in
\* the last entry and with a notice, apart from the transcript, that carries
\* the failure description; the entry keeps the marker, never the
\* placeholder, for as long as it is the last one.
C3_FailureMarked ==
    /\ [](\A s \in Sessions :
            (calls[s] # <<>> /\ Last(calls[s]).kind = "raise")
            => /\ Len(Log(s)) = Len(calls[s])
               /\ Last(Log(s)).bot = ErrorMarker
               /\ Last(Log(s)).bot # Placeholder
               /\ Last(Log(s)).user = Last(calls[s]).prompt)
    /\ [][\A s \in Sessions :
            (pc[s] = "generating" /\ pc'[s] = "idle"
                /\ Last(calls'[s]).kind = "raise")
            => /\ Last(Log(s)').bot = ErrorMarker
               /\ notices'[s] # <<>>
               /\ Last(notices'[s]) = <<"An error occurred: ", Last(calls'[s]).text[1]>>
               /\ Last(calls'[s]).text[1] \in Faults]_vars

\* C3 witness: a failed generation has just ended and its notice is up.
C3_Witness ==
    \E s \in Sessions :
        /\ pc[s] = "idle" /\ calls[s] # <<>> /\ Last(calls[s]).kind = "raise"
        /\ notices[s] # <<>>
        /\ Last(Log(s)).bot = ErrorMarker

\* C4 as stated: with an entry pending when its bot text is "Thinking...",
\* at most one entry is pending, a pending entry is the last one, exactly one
\* is pending during a generation call and none when the session is idle.
C4_Original ==
    \A s \in Sessions :
        /\ Cardinality(Pending(Log(s))) <= 1
        /\ \A i \in Pending(Log(s)) : i = Len(Log(s))
        /\ pc[s] = "generating" => Cardinality(Pending(Log(s))) = 1
        /\ pc[s] = "idle" => Pending(Log(s)) = {}

\* C4 amended: during a generation call exactly one entry awaits its result,
\* it is the last one and holds the placeholder; no entry awaits a result
\* when the session is idle; and an entry that holds the text "Thinking..."
\* is either that awaiting entry or one for which the generator returned
\* exactly that text.
C4_OneAwaitingEntry ==
    \A s \in Sessions :
        /\ Len(Log(s)) = Len(calls[s])
        /\ pc[s] = "generating"
             => Awaiting(s) = {Len(Log(s))} /\ Last(Log(s)).bot = Placeholder
        /\ pc[s] = "idle" => Awaiting(s) = {}
        /\ \A i \in Pending(Log(s)) :
              \/ i \in Awaiting(s)
              \/ calls[s][i].kind = "ok" /\ calls[s][i].text = Placeholder

\* C4 witness: a generation call is in flight behind an earlier, finished
\* entry.
C4_Witness ==
    \E s \in Sessions :
        /\ pc[s] = "generating" /\ Len(Log(s)) = 2
        /\ Log(s)[1].bot # Placeholder
        /\ Log(s)[2].bot = Placeholder

\* C5: the transcript follows the accepted submissions in their order: entry
\* i holds the i-th non-blank text submitted and the outcome of its call;
\* no step removes an entry, moves one or alters one whose call is over.
C5_AppendOrder ==
    /\ [](\A s \in Sessions :
            /\ Len(Log(s)) = Len(calls[s])
            /\ \A i \in 1..Len(Log(s)) :
                  /\ Log(s)[i].user = calls[s][i].prompt
                  /\ Log(s)[i].bot = BotOf(calls[s][i])
                  /\ strip(Log(s)[i].user) # <<>>)
    /\ [][\A s \in Sessions :
            /\ Len(Log(s)') >= Len(Log(s))
            /\ \A i \in 1..Len(Log(s)) :
                  /\ Log(s)'[i].user = Log(s)[i].user
                  /\ (i < Len(Log(s)) \/ pc[s] = "idle")
                        => Log(s)'[i] = Log(s)[i]]_vars

\* C5 witness: two different messages were submitted one after the other and
\* both were answered.
C5_Witness ==
    \E s \in Sessions :
        /\ pc[s] = "idle" /\ Len(Log(s)) = 2
        /\ Log(s)[1].user # Log(s)[2].user
        /\ calls[s][1].kind = "ok" /\ calls[s][2].kind = "ok"
        /\ Log(s)[1].bot # Log(s)[2].bot

\* C6: a failed generation leaves the session idle and able to take any
\* non-blank submission (while the call budget of the model lasts); that
\* submission gets its own entry after the error entry, and its resolution
\* writes that entry and leaves the error entry as it is.
C6_UsableAfterFailure ==
    /\ [](\A s \in Sessions :
            (calls[s] # <<>> /\ Last(calls[s]).kind = "raise")
            => /\ pc[s] = "idle"
               /\ HasLog(session_state[s])
               /\ TotalCalls < MaxCalls
                    => \A inp \in Inputs :
                          strip(inp) # <<>> => ENABLED SendMessage(s, inp))
    /\ [][\A s \in Sessions :
            /\ (calls[s] # <<>> /\ Last(calls[s]).kind = "raise"
                    /\ calls'[s] # calls[s])
               => /\ pc'[s] = "generating"
                  /\ Log(s)' = Append(Log(s), [user |-> user_input'[s],
                                               bot |-> Placeholder])
                  /\ Last(Log(s)).bot = ErrorMarker
            /\ (pc[s] = "generating" /\ pc'[s] = "idle" /\ Len(Log(s)) >= 2
                    /\ calls[s][Len(Log(s)) - 1].kind = "raise")
               => /\ Len(Log(s)') = Len(Log(s))
                  /\ Log(s)'[Len(Log(s)) - 1] = Log(s)[Len(Log(s)) - 1]
                  /\ Log(s)[Len(Log(s)) - 1].bot = ErrorMarker
                  /\ Last(Log(s)').bot = BotOf(Last(calls'[s]))]_vars

\* C6 witness: after a failed submission a second one was accepted and
\* answered.
C6_Witness ==
    \E s \in Sessions :
        /\ pc[s] = "idle" /\ Len(Log(s)) = 2
        /\ calls[s][1].kind = "raise" /\ Log(s)[1].bot = ErrorMarker
        /\ calls[s][2].kind = "ok" /\ Log(s)[2].bot = calls[s][2].text

\* C7: every call of generate_response, finished or in flight, has an
\* argument that is not empty once stripped.
C7_NoBlankPrompt ==
    \A s \in Sessions :
        /\ \A i \in 1..Len(calls[s]) : strip(calls[s][i].prompt) # <<>>
        /\ pc[s] = "generating"
             => strip(user_input[s]) # <<>> /\ user_input[s] = Last(calls[s]).prompt

\* C7 witness: generate_response is running on a message that starts with a
\* space, while the other session has had a blank text rejected.
C7_Witness ==
    \E s \in Sessions :
        /\ pc[s] = "generating" /\ calls[s] # <<>>
        /\ Head(user_input[s]) \in Whitespace
        /\ \E t \in Sessions \ {s} : notices[t] = <<ValidationNotice>>

\* C8: a run of the page without Send leaves the transcript as it is and
\* writes the same lines as the run before it; the lines of a finished run
\* are the (You, Bot) pairs of the transcript in its order.
C8_RenderReadOnly ==
    /\ [](\A s \in Sessions :
            pc[s] = "idle"
            => /\ Len(rendered[s]) = 2 * Len(Log(s))
               /\ \A i \in 1..Len(Log(s)) :
                     /\ rendered[s][2 * i - 1] = <<"**You:** ", Log(s)[i].user>>
                     /\ rendered[s][2 * i] = <<"**Bot:** ", Log(s)[i].bot>>)
    /\ [][\A s \in Sessions :
            Rerun(s) => /\ Log(s)' = Log(s)
                        /\ rendered'[s] = rendered[s]
                        /\ calls'[s] = calls[s]]_vars

\* C8 witness: the page was run again, without Send, after a failed
\* generation (the failure notice is gone) over a transcript of two entries.
C8_Witness ==
    \E s \in Sessions :
        /\ pc[s] = "idle" /\ Len(Log(s)) = 2
        /\ Last(calls[s]).kind = "raise"
        /\ notices[s] = <<>>
        /\ Len(rendered[s]) = 4

\* C9: a step changes the transcript of at most one session, and only of a
\* session whose own script run moves in that step (a submission accepted or
\* a generation call ended); a blank submission, a rerun or any step of
\* another session changes no transcript of this one.
C9_SessionsIsolated ==
    [][\A s \in Sessions :
          Log(s)' # Log(s)
          => /\ pc'[s] # pc[s]
             /\ \A t \in Sessions \ {s} : Log(t)' = Log(t) /\ pc'[t] = pc[t]
             /\ \/ /\ pc[s] = "idle"
                   /\ Log(s)' = Append(Log(s), [user |-> user_input'[s],
                                                bot |-> Placeholder])
                \/ /\ pc[s] = "generating"
                   /\ Len(Log(s)') = Len(Log(s))
                   /\ \A i \in 1..(Len(Log(s)) - 1) : Log(s)'[i] = Log(s)[i]]_vars

\* C9 witness: both sessions hold a transcript, with different messages, and
\* one of them is inside a generation call.
C9_Witness ==
    /\ Log("s1") # <<>> /\ Log("s2") # <<>>
    /\ Log("s1")[1].user # Log("s2")[1].user
    /\ pc["s1"] = "idle" /\ pc["s2"] = "generating"

\* C10: an entry is created with the placeholder as bot text; the only write
\* to it afterwards is the one that ends its generation call, which stores a
\* text generate_response can return for the entry's message or the error
\* marker; that write is done before the session is idle again, an entry
\* whose call is over never changes, and the user text of an entry never
\* changes.
C10_BotWrittenOnce ==
    /\ [](\A s \in Sessions :
            pc[s] = "idle"
            => \A i \in 1..Len(Log(s)) :
                  /\ calls[s][i].kind # "pending"
                  /\ Log(s)[i].bot = BotOf(calls[s][i]))
    /\ [][\A s \in Sessions :
             /\ \A i \in 1..Len(Log(s)) :
                   /\ i <= Len(Log(s)')
                   /\ Log(s)'[i].user = Log(s)[i].user
                   /\ (i < Len(Log(s)) \/ pc[s] = "idle") => Log(s)'[i] = Log(s)[i]
                   /\ (i = Len(Log(s)) /\ pc[s] = "generating")
                         => /\ Log(s)[i].bot = Placeholder
                            /\ \/ pc'[s] = "generating" /\ Log(s)'[i] = Log(s)[i]
                               \/ /\ pc'[s] = "idle"
                                  /\ Log(s)'[i].bot \in
                                        generate_response(Log(s)[i].user) \cup {ErrorMarker}
             /\ \A i \in (Len(Log(s)) + 1)..Len(Log(s)') :
                   /\ Log(s)'[i].bot = Placeholder
                   /\ pc[s] = "idle" /\ pc'[s] = "generating"
                   /\ i = Len(Log(s)) + 1]_vars

\* C10 witness: a transcript of two entries, both written: one with a
\* generated text and one with the error marker.
C10_Witness ==
    \E s \in Sessions :
        /\ pc[s] = "idle" /\ Len(Log(s)) = 2
        /\ calls[s][1].kind = "ok" /\ Log(s)[1].bot # Placeholder
        /\ calls[s][2].kind = "raise" /\ Log(s)[2].bot = ErrorMarker

====
